---- MODULE Spec2Model ----
(***************************************************************************)
(* A model of the runtime-cfg crate: the Predicate tree (src/src/lib.rs),  *)
(* the Matcher / Pattern implementations and Predicate::matches            *)
(* (src/src/matches.rs), the structured parser (src/src/parsing.rs) and    *)
(* the printer (src/src/printing.rs).                                      *)
(*                                                                         *)
(* A Rust String is a sequence of Unicode code points (naturals), so that  *)
(* printing, lexing and literal conversion work on characters.             *)
(***************************************************************************)
EXTENDS Naturals, Sequences, FiniteSets

VARIABLES pred, pattern, meta, attrs, text, out

vars == <<pred, pattern, meta, attrs, text, out>>

(***************************************************************************)
(* Bounds of the explored inputs.                                          *)
(***************************************************************************)
\* Largest number of nodes of a Predicate tree handed to matches.
MaxNodes == 3
\* Largest number of entries of the list-shaped flag source.
MaxFlags == 2

(***************************************************************************)
(* Strings used by the explored inputs, as code-point sequences.           *)
(***************************************************************************)
S_foo == <<102, 111, 111>>
S_bar == <<98, 97, 114>>
S_cfg == <<99, 102, 103>>
S_any == <<97, 110, 121>>
S_all == <<97, 108, 108>>
S_not == <<110, 111, 116>>
S_32 == <<51, 50>>
S_64 == <<54, 52>>

(***************************************************************************)
(* Option<T>.                                                              *)
(***************************************************************************)
None == [opt |-> "None"]
Some(x) == [opt |-> "Some", val |-> x]

(***************************************************************************)
(* The Predicate tree and its builder functions (src/src/lib.rs).          *)
(***************************************************************************)
Any(predicates) == [tag |-> "Any", children |-> predicates]
All(predicates) == [tag |-> "All", children |-> predicates]
Not(predicate) == [tag |-> "Not", child |-> predicate]
Name(n) == [tag |-> "Name", name |-> n]
NameValue(n, v) == [tag |-> "NameValue", name |-> n, value |-> v]
Cfg(predicate) == [cfg |-> predicate]

any(predicates) == Any(predicates)
all(predicates) == All(predicates)
not(predicate) == Not(predicate)
name(n) == Name(n)
name_value(n, v) == NameValue(n, v)

(***************************************************************************)
(* Matchers (src/src/matches.rs): a &str matches by equality, a slice or   *)
(* Vec of &str by membership, an Option<T> only when it is Some.           *)
(***************************************************************************)
StrMatcher(s) == [m |-> "str", s |-> s]
VecStrMatcher(items) == [m |-> "strs", items |-> items]

StrMatches(self, value) == self.s = value

RECURSIVE IterAnyEq(_, _, _)
IterAnyEq(items, value, i) ==
    IF i > Len(items) THEN FALSE
    ELSE IF items[i] = value THEN TRUE
    ELSE IterAnyEq(items, value, i + 1)

VecStrMatches(self, value) == IterAnyEq(self.items, value, 1)

MatcherMatches(self, value) ==
    IF self.m = "str" THEN StrMatches(self, value) ELSE VecStrMatches(self, value)

\* Mutation: an absent matcher accepts every value.
OptionMatchesAbsentAccepts(self, value) ==
    IF self.opt = "Some" THEN MatcherMatches(self.val, value) ELSE TRUE

OptionMatches(self, value) ==
    IF self.opt = "Some" THEN MatcherMatches(self.val, value) ELSE FALSE

(***************************************************************************)
(* Pattern for [(K, Option<V>)] and Vec<(K, Option<V>)>: a linear scan     *)
(* that stops at the first entry satisfying the closure.                   *)
(***************************************************************************)
VecPattern(entries) == [shape |-> "Vec", entries |-> entries]
HashMapPattern(map) == [shape |-> "HashMap", map |-> map]

\* Mutation: an entry without a declared value satisfies a value query.
VecValueEntryMatchesUndeclared(entry, key, value) ==
    /\ MatcherMatches(entry.k, key)
    /\ IF entry.v.opt = "Some" THEN MatcherMatches(entry.v.val, value) ELSE TRUE

\* Mutation: only an entry without a declared value satisfies a presence query.
VecNameEntryMatchesBare(entry, key) ==
    MatcherMatches(entry.k, key) /\ entry.v.opt = "None"

VecValueEntryMatches(entry, key, value) ==
    /\ MatcherMatches(entry.k, key)
    /\ IF entry.v.opt = "Some" THEN MatcherMatches(entry.v.val, value) ELSE FALSE

VecNameEntryMatches(entry, key) == MatcherMatches(entry.k, key)

RECURSIVE SliceAnyValue(_, _, _, _)
SliceAnyValue(entries, key, value, i) ==
    IF i > Len(entries) THEN FALSE
    ELSE IF VecValueEntryMatches(entries[i], key, value) THEN TRUE
    ELSE SliceAnyValue(entries, key, value, i + 1)

RECURSIVE SliceAnyName(_, _, _)
SliceAnyName(entries, key, i) ==
    IF i > Len(entries) THEN FALSE
    ELSE IF VecNameEntryMatches(entries[i], key) THEN TRUE
    ELSE SliceAnyName(entries, key, i + 1)

SlicePatternMatches(entries, key, value) ==
    IF value.opt = "Some"
    THEN SliceAnyValue(entries, key, value.val, 1)
    ELSE SliceAnyName(entries, key, 1)

VecPatternMatches(self, key, value) == SlicePatternMatches(self.entries, key, value)

(***************************************************************************)
(* Pattern for HashMap<K, V>: a lookup by key; V is the Option matcher.    *)
(***************************************************************************)
HashMapGet(map, key) == IF key \in DOMAIN map THEN Some(map[key]) ELSE None

HashMapValueMatches(map, key, value) ==
    IF HashMapGet(map, key).opt = "Some"
    THEN OptionMatches(HashMapGet(map, key).val, value)
    ELSE FALSE

HashMapContainsKey(map, key) == key \in DOMAIN map

HashMapPatternMatches(self, key, value) ==
    IF value.opt = "Some"
    THEN HashMapValueMatches(self.map, key, value.val)
    ELSE HashMapContainsKey(self.map, key)

HashMapInsert(map, k, v) ==
    [x \in (DOMAIN map) \cup {k} |-> IF x = k THEN v ELSE map[x]]

PatternMatches(self, key, value) ==
    IF self.shape = "Vec"
    THEN VecPatternMatches(self, key, value)
    ELSE HashMapPatternMatches(self, key, value)

(***************************************************************************)
(* Predicate::matches: Iterator::any and Iterator::all walk the children   *)
(* in order and stop at the first deciding child.                          *)
(***************************************************************************)
RECURSIVE PredicateMatches(_, _)
RECURSIVE AnyMatches(_, _, _)
RECURSIVE AllMatches(_, _, _)

\* Mutation: an empty any(..) succeeds.
AnyMatchesEmptyTrue(predicates, pat, i) ==
    IF i > Len(predicates) THEN TRUE
    ELSE IF PredicateMatches(predicates[i], pat) THEN TRUE
    ELSE AnyMatches(predicates, pat, i + 1)

\* Mutation: any(..) decides on the child it looks at first.
AnyMatchesFirstOnly(predicates, pat, i) ==
    IF i > Len(predicates) THEN FALSE
    ELSE PredicateMatches(predicates[i], pat)

AnyMatches(predicates, pat, i) ==
    IF i > Len(predicates) THEN FALSE
    ELSE IF PredicateMatches(predicates[i], pat) THEN TRUE
    ELSE AnyMatches(predicates, pat, i + 1)

AllMatches(predicates, pat, i) ==
    IF i > Len(predicates) THEN TRUE
    ELSE IF ~PredicateMatches(predicates[i], pat) THEN FALSE
    ELSE AllMatches(predicates, pat, i + 1)

PredicateMatches(self, pat) ==
    CASE self.tag = "Any" -> AnyMatches(self.children, pat, 1)
      [] self.tag = "All" -> AllMatches(self.children, pat, 1)
      [] self.tag = "Not" -> ~PredicateMatches(self.child, pat)
      [] self.tag = "Name" -> PatternMatches(pat, self.name, None)
      [] self.tag = "NameValue" -> PatternMatches(pat, self.name, Some(self.value))

(***************************************************************************)
(* The explored Predicate trees: every tree of at most MaxNodes nodes      *)
(* over the leaves below, built with the builder functions.                *)
(***************************************************************************)
PredNames == {S_foo, S_bar}
PredValues == {S_32}
PredLeaves ==
    {name(n) : n \in PredNames} \cup {name_value(n, v) : n \in PredNames, v \in PredValues}

RECURSIVE PredsOfSize(_)
RECURSIVE PredListsOfSize(_)

PredListsOfSize(n) ==
    IF n = 0 THEN {<<>>}
    ELSE UNION {{<<p>> \o rest : p \in PredsOfSize(k), rest \in PredListsOfSize(n - k)} :
                  k \in 1..n}

PredsOfSize(n) ==
    IF n = 0 THEN {}
    ELSE (IF n = 1 THEN PredLeaves ELSE {})
         \cup {not(c) : c \in PredsOfSize(n - 1)}
         \cup {any(l) : l \in PredListsOfSize(n - 1)}
         \cup {all(l) : l \in PredListsOfSize(n - 1)}

Predicates == UNION {PredsOfSize(n) : n \in 1..MaxNodes}

(***************************************************************************)
(* The explored flag sources.                                              *)
(***************************************************************************)
KeyMatchers == {StrMatcher(S_foo), StrMatcher(S_bar)}
MapKeys == {S_foo, S_bar}
ValueMatchers == {StrMatcher(S_32), VecStrMatcher(<<S_64, S_32>>)}
OptValueMatchers == {None} \cup {Some(v) : v \in ValueMatchers}

NoOut == [op |-> "none"]
NoMeta == [meta |-> "none"]

(***************************************************************************)
(* Evaluation: the caller builds a flag source, then calls matches.        *)
(***************************************************************************)
InitMatch ==
    /\ pred \in Predicates
    /\ pattern \in {VecPattern(<<>>), HashMapPattern(<<>>)}
    /\ meta = NoMeta
    /\ attrs = <<>>
    /\ text = <<>>
    /\ out = NoOut

\* vec![..]: one more (key, optional value) pair of the list-shaped source.
PushFlag ==
    /\ out.op = "none"
    /\ pattern.shape = "Vec"
    /\ Len(pattern.entries) < MaxFlags
    /\ \E k \in KeyMatchers, v \in OptValueMatchers :
         pattern' = VecPattern(Append(pattern.entries, [k |-> k, v |-> v]))
    /\ UNCHANGED <<pred, meta, attrs, text, out>>

\* HashMap::insert of the map-shaped source.
InsertFlag ==
    /\ out.op = "none"
    /\ pattern.shape = "HashMap"
    /\ \E k \in MapKeys, v \in OptValueMatchers :
         pattern' = HashMapPattern(HashMapInsert(pattern.map, k, v))
    /\ UNCHANGED <<pred, meta, attrs, text, out>>

\* cfg.matches(&flags)
Matches ==
    /\ out.op = "none"
    /\ out' = [op |-> "matches", ret |-> PredicateMatches(pred, pattern)]
    /\ UNCHANGED <<pred, pattern, meta, attrs, text>>

NextMatch == PushFlag \/ InsertFlag \/ Matches

SpecMatch == InitMatch /\ [][NextMatch]_vars

(***************************************************************************)
(* Claims about evaluation.                                                *)
(***************************************************************************)
\* The Boolean value of a tree: disjunction, conjunction and negation over
\* the pattern's answers at the leaves.
RECURSIVE BooleanValue(_, _)
BooleanValue(p, pat) ==
    CASE p.tag = "Any" -> \E i \in 1..Len(p.children) : BooleanValue(p.children[i], pat)
      [] p.tag = "All" -> \A i \in 1..Len(p.children) : BooleanValue(p.children[i], pat)
      [] p.tag = "Not" -> ~BooleanValue(p.child, pat)
      [] p.tag = "Name" -> PatternMatches(pat, p.name, None)
      [] p.tag = "NameValue" -> PatternMatches(pat, p.name, Some(p.value))

\* C1: Predicate::matches returns the Boolean value of the tree: Any is true
\* iff some child matches (Any([]) is false), All iff every child matches
\* (All([]) is true), Not negates, Name and NameValue are the pattern's
\* answers to (n, None) and (n, Some(v)).
C1_MatchesIsBooleanValue ==
    out.op = "matches" => out.ret = BooleanValue(pred, pattern)

C1_Witness ==
    /\ out.op = "matches"
    /\ pred = any(<<name(S_foo), name(S_bar)>>)
    /\ pattern = VecPattern(<<[k |-> StrMatcher(S_bar), v |-> None]>>)
    /\ out.ret = TRUE

\* Some entry of the flag source has a key that matches `key`.
SomeEntryHasKey(pat, key) ==
    IF pat.shape = "Vec"
    THEN \E i \in 1..Len(pat.entries) : MatcherMatches(pat.entries[i].k, key)
    ELSE \E k \in DOMAIN pat.map : k = key

\* C2: in both flag-source shapes a presence query (key, None) succeeds iff
\* some entry's key matches, whether or not the entry declares a value.
C2_PresenceQuery ==
    (out.op = "matches" /\ pred.tag = "Name")
        => out.ret = SomeEntryHasKey(pattern, pred.name)

C2_Witness ==
    /\ out.op = "matches"
    /\ pred = name(S_foo)
    /\ pattern = VecPattern(<<[k |-> StrMatcher(S_foo), v |-> Some(StrMatcher(S_32))]>>)
    /\ out.ret = TRUE

\* Some entry has a matching key and a declared value whose matcher accepts v.
SomeEntryHasKeyValue(pat, key, v) ==
    IF pat.shape = "Vec"
    THEN \E i \in 1..Len(pat.entries) :
             /\ MatcherMatches(pat.entries[i].k, key)
             /\ pat.entries[i].v.opt = "Some"
             /\ MatcherMatches(pat.entries[i].v.val, v)
    ELSE \E k \in DOMAIN pat.map :
             /\ k = key
             /\ pat.map[k].opt = "Some"
             /\ MatcherMatches(pat.map[k].val, v)

Perms(n) == {f \in [1..n -> 1..n] : \A i, j \in 1..n : f[i] = f[j] => i = j}

Permuted(p, f) ==
    [p EXCEPT !.children = [i \in 1..Len(p.children) |-> p.children[f[i]]]]

\* C10: the result of Any and of All is the same for every permutation of
\* the children.
C10_OrderIndependent ==
    (out.op = "matches" /\ pred.tag \in {"Any", "All"})
        => \A f \in Perms(Len(pred.children)) :
              PredicateMatches(Permuted(pred, f), pattern) = out.ret

C10_Witness ==
    /\ out.op = "matches"
    /\ pred = all(<<name(S_foo), name(S_bar)>>)
    /\ pattern = VecPattern(<<[k |-> StrMatcher(S_foo), v |-> None]>>)
    /\ out.ret = FALSE

(***************************************************************************)
(* The two flag-source shapes side by side: the caller declares each flag  *)
(* once, in a Vec<(&str, Option<V>)> and in a HashMap<&str, Option<V>>,    *)
(* then evaluates the same predicate against both.                         *)
(***************************************************************************)
BothPatterns(entries, map) == [vec |-> VecPattern(entries), map |-> HashMapPattern(map)]

InitAgree ==
    /\ pred \in Predicates
    /\ pattern = BothPatterns(<<>>, <<>>)
    /\ meta = NoMeta
    /\ attrs = <<>>
    /\ text = <<>>
    /\ out = NoOut

\* flags.push((k, v)); h.insert(k, v) for a key that is not declared yet.
DeclareFlag ==
    /\ out.op = "none"
    /\ Len(pattern.vec.entries) < MaxFlags
    /\ \E k \in MapKeys, v \in OptValueMatchers :
         /\ ~HashMapContainsKey(pattern.map.map, k)
         /\ pattern' = BothPatterns(Append(pattern.vec.entries, [k |-> StrMatcher(k), v |-> v]),
                                    HashMapInsert(pattern.map.map, k, v))
    /\ UNCHANGED <<pred, meta, attrs, text, out>>

\* cfg.matches(&flags) and cfg.matches(&h)
MatchesBoth ==
    /\ out.op = "none"
    /\ out' = [op |-> "matches_both",
               vec |-> PredicateMatches(pred, pattern.vec),
               map |-> PredicateMatches(pred, pattern.map)]
    /\ UNCHANGED <<pred, pattern, meta, attrs, text>>

NextAgree == DeclareFlag \/ MatchesBoth

SpecAgree == InitAgree /\ [][NextAgree]_vars

\* The queries put to both sources: declared and undeclared keys, accepted
\* and rejected values.
QueryKeys == {S_foo, S_bar, S_cfg}
QueryValues == {S_32, S_64, S_foo}
Queries == {None} \cup {Some(v) : v \in QueryValues}

\* C11: for unique keys, exact-string key matchers and optional value
\* matchers, the list and the map built from the same entries answer every
\* query (key, None) and (key, Some(v)) alike, and every Predicate matches
\* one iff it matches the other.
C11_ShapesAgree ==
    /\ \A key \in QueryKeys, value \in Queries :
         PatternMatches(pattern.vec, key, value) = PatternMatches(pattern.map, key, value)
    /\ out.op = "matches_both" => out.vec = out.map

C11_Witness ==
    /\ out.op = "matches_both"
    /\ pred = all(<<name_value(S_foo, S_32), name(S_bar)>>)
    /\ pattern.vec.entries = <<[k |-> StrMatcher(S_foo), v |-> Some(StrMatcher(S_32))],
                               [k |-> StrMatcher(S_bar), v |-> None]>>
    /\ DOMAIN pattern.map.map = {S_foo, S_bar}
    /\ out.vec = TRUE
    /\ out.map = TRUE

(***************************************************************************)
(* The parser's input (syn 0.15): a Meta is a Word, a NameValue or a List  *)
(* of NestedMeta; a NestedMeta is a Meta or a literal.  The span of a node *)
(* is its place in the attribute: the path of operand indexes from the     *)
(* attribute's root.                                                       *)
(***************************************************************************)
LitStr(s) == [lit |-> "Str", s |-> s]
LitByteStr(bytes) == [lit |-> "ByteStr", bytes |-> bytes]
LitByte(b) == [lit |-> "Byte", byte |-> b]
LitChar(c) == [lit |-> "Char", ch |-> c]
LitInt(n) == [lit |-> "Int", int |-> n]
LitFloat(whole, frac) == [lit |-> "Float", whole |-> whole, frac |-> frac]
LitBool(b) == [lit |-> "Bool", bool |-> b]
LitVerbatim(token) == [lit |-> "Verbatim", token |-> token]

MetaWord(ident, span) == [kind |-> "Word", ident |-> ident, span |-> span]
MetaNameValue(ident, lit, span) ==
    [kind |-> "NameValue", ident |-> ident, lit |-> lit, span |-> span]
MetaList(ident, nested, span) ==
    [kind |-> "List", ident |-> ident, nested |-> nested, span |-> span]
NestedMetaMeta(m) == [nested |-> "Meta", inner |-> m]
NestedMetaLiteral(lit, span) == [nested |-> "Literal", lit |-> lit, span |-> span]

NestedSpan(nested_meta) ==
    IF nested_meta.nested = "Meta" THEN nested_meta.inner.span ELSE nested_meta.span

(***************************************************************************)
(* Results: Ok(value), Err(syn::Error with message and span), or a panic   *)
(* that unwinds through every caller.                                      *)
(***************************************************************************)
Ok(v) == [res |-> "Ok", val |-> v]
Err(fmt, arg, span) == [res |-> "Err", msg |-> [fmt |-> fmt, arg |-> arg], span |-> span]
Panic(msg) == [res |-> "Panic", msg |-> msg]

(***************************************************************************)
(* String::from_utf8: the byte sequence decoded as UTF-8, or None when it  *)
(* is not well formed.                                                     *)
(***************************************************************************)
IsCont(bytes, i) == i <= Len(bytes) /\ bytes[i] \in 128..191
InRange(bytes, i, lo, hi) == i <= Len(bytes) /\ bytes[i] \in lo..hi

RECURSIVE Utf8Decode(_, _, _)
Utf8Decode(bytes, i, acc) ==
    IF i > Len(bytes) THEN Some(acc)
    ELSE LET b == bytes[i] IN
      IF b < 128 THEN Utf8Decode(bytes, i + 1, Append(acc, b))
      ELSE IF b \in 194..223 THEN
        IF IsCont(bytes, i + 1)
        THEN Utf8Decode(bytes, i + 2, Append(acc, (b - 192) * 64 + (bytes[i + 1] - 128)))
        ELSE None
      ELSE IF b \in 224..239 THEN
        IF /\ InRange(bytes, i + 1, IF b = 224 THEN 160 ELSE 128, IF b = 237 THEN 159 ELSE 191)
           /\ IsCont(bytes, i + 2)
        THEN Utf8Decode(bytes, i + 3,
                 Append(acc, (b - 224) * 4096 + (bytes[i + 1] - 128) * 64
                             + (bytes[i + 2] - 128)))
        ELSE None
      ELSE IF b \in 240..244 THEN
        IF /\ InRange(bytes, i + 1, IF b = 240 THEN 144 ELSE 128, IF b = 244 THEN 143 ELSE 191)
           /\ IsCont(bytes, i + 2)
           /\ IsCont(bytes, i + 3)
        THEN Utf8Decode(bytes, i + 4,
                 Append(acc, (b - 240) * 262144 + (bytes[i + 1] - 128) * 4096
                             + (bytes[i + 2] - 128) * 64 + (bytes[i + 3] - 128)))
        ELSE None
      ELSE None

StringFromUtf8(bytes) == Utf8Decode(bytes, 1, <<>>)

\* u64::to_string: the decimal digits.
RECURSIVE U64ToString(_)
U64ToString(n) ==
    IF n < 10 THEN <<48 + n>> ELSE Append(U64ToString(n \div 10), 48 + (n % 10))

\* f64::to_string of a value written whole.frac (frac without trailing zeros).
F64ToString(whole, frac) ==
    IF frac = <<>> THEN U64ToString(whole) ELSE U64ToString(whole) \o <<46>> \o frac

BoolToString(b) == IF b THEN <<116, 114, 117, 101>> ELSE <<102, 97, 108, 115, 101>>

(***************************************************************************)
(* lit_to_string (src/src/parsing.rs): the ByteStr arm unwraps the result  *)
(* of String::from_utf8 with expect("utf-8").                              *)
(***************************************************************************)
lit_to_string(lit) ==
    CASE lit.lit = "Str" -> Ok(lit.s)
      [] lit.lit = "ByteStr" ->
           IF StringFromUtf8(lit.bytes).opt = "Some"
           THEN Ok(StringFromUtf8(lit.bytes).val)
           ELSE Panic("utf-8")
      [] lit.lit = "Byte" -> Ok(<<lit.byte>>)
      [] lit.lit = "Char" -> Ok(<<lit.ch>>)
      [] lit.lit = "Int" -> Ok(U64ToString(lit.int))
      [] lit.lit = "Float" -> Ok(F64ToString(lit.whole, lit.frac))
      [] lit.lit = "Bool" -> Ok(BoolToString(lit.bool))
      [] lit.lit = "Verbatim" -> Ok(lit.token)

(***************************************************************************)
(* parse_meta, parse_meta_list, parse_nested_meta.                         *)
(***************************************************************************)
RECURSIVE parse_meta(_)
RECURSIVE parse_meta_list(_)
RECURSIVE parse_nested_meta(_)
RECURSIVE CollectNested(_, _, _)

\* nested.into_iter().map(parse_nested_meta).collect::<Result<Vec<_>>>():
\* the operands are parsed in order and the first error ends the walk.
CollectNested(nested, i, acc) ==
    IF i > Len(nested) THEN Ok(acc)
    ELSE LET r == parse_nested_meta(nested[i]) IN
         IF r.res = "Ok" THEN CollectNested(nested, i + 1, Append(acc, r.val)) ELSE r

\* The first operand of not(..) and cfg(..): parsed before the arity check.
FirstPredicate(nested, span, fmt) ==
    IF Len(nested) = 0 THEN Err(fmt, <<>>, span) ELSE parse_nested_meta(nested[1])

\* The arity check that follows: a panic of the first operand has already
\* unwound; a second operand is an error at its span.
OnlyOne(first, nested, fmt) ==
    IF first.res = "Panic" THEN first
    ELSE IF Len(nested) >= 2 THEN Err(fmt, <<>>, NestedSpan(nested[2]))
    ELSE first

parse_meta_list(meta_list) ==
    LET span == meta_list.span
        ident == meta_list.ident
        nested == meta_list.nested
    IN  IF ident = S_any THEN
          LET r == CollectNested(nested, 1, <<>>) IN
          IF r.res = "Ok" THEN Ok(Any(r.val)) ELSE r
        ELSE IF ident = S_all THEN
          LET r == CollectNested(nested, 1, <<>>) IN
          IF r.res = "Ok" THEN Ok(All(r.val)) ELSE r
        ELSE IF ident = S_not THEN
          LET first == FirstPredicate(nested, span, "#[cfg(not(..))] predicate can't be empty")
              predicate == IF first.res = "Ok" THEN Ok(Not(first.val)) ELSE first
          IN  OnlyOne(predicate, nested, "#[cfg(not(..))] only support one predicate")
        ELSE IF ident = S_cfg THEN
          LET predicate == FirstPredicate(nested, span, "#[cfg(..)] predicate can't be empty")
          IN  OnlyOne(predicate, nested, "#[cfg(..)] only support one predicate")
        ELSE Err("unexpected operator {}", ident, span)

parse_meta(m) ==
    CASE m.kind = "Word" -> Ok(Name(m.ident))
      [] m.kind = "NameValue" ->
           LET s == lit_to_string(m.lit) IN
           IF s.res = "Ok" THEN Ok(NameValue(m.ident, s.val)) ELSE s
      [] m.kind = "List" -> parse_meta_list(m)

parse_nested_meta(nested_meta) ==
    LET span == NestedSpan(nested_meta) IN
    IF nested_meta.nested = "Meta" THEN parse_meta(nested_meta.inner)
    ELSE LET s == lit_to_string(nested_meta.lit) IN
         IF s.res = "Ok" THEN Err("unexpected literal: {:?}", s.val, span) ELSE s

\* impl TryFrom<syn::Meta> for Cfg
CfgTryFromMeta(m) ==
    IF m.ident = S_cfg
    THEN LET r == parse_meta(m) IN IF r.res = "Ok" THEN Ok(Cfg(r.val)) ELSE r
    ELSE Err("expect #[cfg(..)] attribute", <<>>, m.span)

(***************************************************************************)
(* syn::Attribute: its path and what attr.parse_meta() makes of its        *)
(* tokens (a Meta, or syn's own error when they are no Meta).              *)
(***************************************************************************)
Attribute(path, parsed) == [path |-> path, parsed |-> parsed]

PathIsIdent(path, ident) == Len(path) = 1 /\ path[1] = ident

\* impl TryFrom<&syn::Attribute> for Cfg
CfgTryFromAttribute(attr) ==
    IF attr.parsed.res = "Ok" THEN CfgTryFromMeta(attr.parsed.val) ELSE attr.parsed

\* Iterator::find: the index of the first attribute named cfg, 0 if none.
RECURSIVE FindCfgAttr(_, _)
FindCfgAttr(list, i) ==
    IF i > Len(list) THEN 0
    ELSE IF PathIsIdent(list[i].path, S_cfg) THEN i
    ELSE FindCfgAttr(list, i + 1)

\* Result::ok
ResultOk(r) == IF r.res = "Ok" THEN Some(r.val) ELSE None

\* Cfg::find
CfgFind(list) ==
    LET i == FindCfgAttr(list, 1) IN
    IF i = 0 THEN Ok(None)
    ELSE LET r == CfgTryFromAttribute(list[i]) IN
         IF r.res = "Panic" THEN r ELSE Ok(ResultOk(r))

(***************************************************************************)
(* The explored attribute expressions: every Meta of at most MaxMetaNodes  *)
(* nodes over the idents and literals below, and one name = literal pair   *)
(* and one literal operand for each kind of literal.                       *)
(***************************************************************************)
MaxMetaNodes == 4
MaxAttrs == 3

MetaIdents == {S_cfg, S_not, S_any, S_all, S_foo}
TreeLits == {LitStr(S_32), LitByteStr(<<255>>)}
AllLits ==
    {LitStr(S_32), LitByteStr(<<104, 105>>), LitByteStr(<<195, 169>>), LitByteStr(<<255>>),
     LitByteStr(<<195, 40>>), LitByte(98), LitChar(99), LitInt(123), LitFloat(3, <<49, 52>>),
     LitBool(TRUE), LitBool(FALSE), LitVerbatim(<<57, 57>>)}

RECURSIVE MetasOfSize(_, _)
RECURSIVE NestedListsOfSize(_, _, _)

MetaLeaves(path) ==
    {MetaWord(S_foo, path)} \cup {MetaNameValue(S_foo, l, path) : l \in TreeLits}

NestedOfSize(n, path) ==
    {NestedMetaMeta(m) : m \in MetasOfSize(n, path)}
    \cup (IF n = 1 THEN {NestedMetaLiteral(l, path) : l \in TreeLits} ELSE {})

NestedListsOfSize(n, path, idx) ==
    IF n = 0 THEN {<<>>}
    ELSE UNION {{<<x>> \o rest : x \in NestedOfSize(k, Append(path, idx)),
                                 rest \in NestedListsOfSize(n - k, path, idx + 1)} :
                  k \in 1..n}

MetasOfSize(n, path) ==
    IF n = 0 THEN {}
    ELSE (IF n = 1 THEN MetaLeaves(path) ELSE {})
         \cup {MetaList(id, l, path) : id \in MetaIdents,
                                       l \in NestedListsOfSize(n - 1, path, 1)}

LiteralMetas ==
    {MetaWord(S_cfg, <<>>)}
    \cup {MetaNameValue(id, l, <<>>) : id \in {S_cfg, S_foo}, l \in AllLits}
    \cup {MetaList(S_cfg, <<NestedMetaLiteral(l, <<1>>)>>, <<>>) : l \in AllLits}
    \cup {MetaList(S_cfg, <<NestedMetaMeta(MetaNameValue(S_foo, l, <<1>>))>>, <<>>) :
            l \in AllLits}
    \cup {MetaList(S_cfg,
                   <<NestedMetaMeta(MetaList(S_not,
                        <<NestedMetaMeta(MetaNameValue(S_foo, l, <<1, 1>>)),
                          NestedMetaMeta(MetaWord(S_foo, <<1, 2>>))>>,
                        <<1>>))>>,
                   <<>>) : l \in AllLits}

Metas == UNION {MetasOfSize(n, <<>>) : n \in 1..MaxMetaNodes} \cup LiteralMetas

NoPred == [tag |-> "none"]
NoPattern == [shape |-> "none"]

(***************************************************************************)
(* Structured parsing: the caller hands one Meta to Cfg::try_from.         *)
(***************************************************************************)
InitParse ==
    /\ meta \in Metas
    /\ pred = NoPred
    /\ pattern = NoPattern
    /\ attrs = <<>>
    /\ text = <<>>
    /\ out = NoOut

\* Cfg::try_from(meta)
TryFromMeta ==
    /\ out.op = "none"
    /\ out' = [op |-> "try_from", ret |-> CfgTryFromMeta(meta)]
    /\ UNCHANGED <<pred, pattern, meta, attrs, text>>

NextParse == TryFromMeta

SpecParse == InitParse /\ [][NextParse]_vars

(***************************************************************************)
(* Cfg::find: the caller collects attributes, then calls find.             *)
(***************************************************************************)
CfgMeta(nested) == MetaList(S_cfg, nested, <<>>)

Attributes ==
    {Attribute(<<S_foo>>, Ok(MetaWord(S_foo, <<>>))),
     Attribute(<<S_foo, S_cfg>>, Err("expected attribute arguments", <<>>, <<>>)),
     Attribute(<<S_cfg>>, Ok(CfgMeta(<<NestedMetaMeta(MetaWord(S_foo, <<1>>))>>))),
     Attribute(<<S_cfg>>, Ok(CfgMeta(<<NestedMetaMeta(MetaWord(S_bar, <<1>>))>>))),
     Attribute(<<S_cfg>>, Ok(CfgMeta(<<>>))),
     Attribute(<<S_cfg>>, Err("expected literal", <<>>, <<>>)),
     Attribute(<<S_cfg>>,
               Ok(CfgMeta(<<NestedMetaMeta(MetaNameValue(S_foo, LitByteStr(<<255>>), <<1>>))>>)))}

InitFind ==
    /\ attrs = <<>>
    /\ meta = NoMeta
    /\ pred = NoPred
    /\ pattern = NoPattern
    /\ text = <<>>
    /\ out = NoOut

\* One more attribute of the item whose attributes are searched.
PushAttr ==
    /\ out.op = "none"
    /\ Len(attrs) < MaxAttrs
    /\ \E a \in Attributes : attrs' = Append(attrs, a)
    /\ UNCHANGED <<pred, pattern, meta, text, out>>

\* Cfg::find(&attrs)
Find ==
    /\ out.op = "none"
    /\ out' = [op |-> "find", ret |-> CfgFind(attrs)]
    /\ UNCHANGED <<pred, pattern, meta, attrs, text>>

NextFind == PushAttr \/ Find

SpecFind == InitFind /\ [][NextFind]_vars

(***************************************************************************)
(* The printer (src/src/printing.rs): Display for Predicate and for Cfg.   *)
(* The value of a NameValue is written between two quotes as it is.        *)
(***************************************************************************)
RECURSIVE PredicateFmt(_)
RECURSIVE PredicatesFmt(_, _)

\* The loop over predicates.iter().enumerate(): ", " before all but the first.
PredicatesFmt(predicates, i) ==
    IF i > Len(predicates) THEN <<>>
    ELSE (IF i > 1 THEN <<44, 32>> ELSE <<>>)
         \o PredicateFmt(predicates[i]) \o PredicatesFmt(predicates, i + 1)

PredicateFmt(self) ==
    CASE self.tag = "Any" -> S_any \o <<40>> \o PredicatesFmt(self.children, 1) \o <<41>>
      [] self.tag = "All" -> S_all \o <<40>> \o PredicatesFmt(self.children, 1) \o <<41>>
      [] self.tag = "Not" -> S_not \o <<40>> \o PredicateFmt(self.child) \o <<41>>
      [] self.tag = "Name" -> self.name
      [] self.tag = "NameValue" -> self.name \o <<32, 61, 32, 34>> \o self.value \o <<34>>

CfgFmt(self) == <<35, 91>> \o S_cfg \o <<40>> \o PredicateFmt(self.cfg) \o <<41, 93>>

(***************************************************************************)
(* Cfg::parse(s) = syn::parse_str(s): the text is tokenized, then          *)
(* `impl Parse for Cfg` reads '#', the bracketed content, one syn::Meta    *)
(* and hands it to Cfg::try_from.  The tokenizer and syn's Meta grammar    *)
(* are modelled for the characters the printer can emit here: letters,     *)
(* space, # = , ( ) [ ] and string literals with their escapes.            *)
(***************************************************************************)
SynError(what) == Err(what, <<>>, <<>>)

IsIdentStart(c) == c \in 97..122 \/ c \in 65..90 \/ c = 95
IsIdentContinue(c) == IsIdentStart(c) \/ c \in 48..57

RECURSIVE IdentEnd(_, _)
IdentEnd(s, i) ==
    IF i <= Len(s) /\ IsIdentContinue(s[i]) THEN IdentEnd(s, i + 1) ELSE i

\* The character an escape \e stands for, None for an escape that is not one
\* of \" \\ \n \r \t \0 \'.
Unescape(e) ==
    CASE e = 34 -> Some(34)
      [] e = 92 -> Some(92)
      [] e = 110 -> Some(10)
      [] e = 114 -> Some(13)
      [] e = 116 -> Some(9)
      [] e = 48 -> Some(0)
      [] e = 39 -> Some(39)
      [] OTHER -> None

\* The body of a string literal from position i: its value and the position
\* after the closing quote, or None when the literal does not end or holds a
\* bad escape.
RECURSIVE LexString(_, _, _)
LexString(s, i, acc) ==
    IF i > Len(s) THEN None
    ELSE IF s[i] = 34 THEN Some([val |-> acc, next |-> i + 1])
    ELSE IF s[i] = 92 THEN
        IF i + 1 <= Len(s) /\ Unescape(s[i + 1]).opt = "Some"
        THEN LexString(s, i + 2, Append(acc, Unescape(s[i + 1]).val))
        ELSE None
    ELSE LexString(s, i + 1, Append(acc, s[i]))

TokIdent(s) == [t |-> "Ident", s |-> s]
TokPunct(c) == [t |-> "Punct", c |-> c]
TokOpen(c) == [t |-> "Open", c |-> c]
TokClose(c) == [t |-> "Close", c |-> c]
\* A string literal; identifier characters right after the closing quote are
\* its suffix and belong to the same token.
TokStr(s, suffix) == [t |-> "Str", s |-> s, suffix |-> suffix]

RECURSIVE Lex(_, _, _)
Lex(s, i, acc) ==
    IF i > Len(s) THEN Ok(acc)
    ELSE LET c == s[i] IN
      IF c = 32 THEN Lex(s, i + 1, acc)
      ELSE IF IsIdentStart(c) THEN
        Lex(s, IdentEnd(s, i), Append(acc, TokIdent(SubSeq(s, i, IdentEnd(s, i) - 1))))
      ELSE IF c \in {40, 91} THEN Lex(s, i + 1, Append(acc, TokOpen(c)))
      ELSE IF c \in {41, 93} THEN Lex(s, i + 1, Append(acc, TokClose(c)))
      ELSE IF c \in {35, 61, 44} THEN Lex(s, i + 1, Append(acc, TokPunct(c)))
      ELSE IF c = 34 THEN
        LET r == LexString(s, i + 1, <<>>) IN
        IF r.opt = "Some"
        THEN LET e == IdentEnd(s, r.val.next) IN
             Lex(s, e, Append(acc, TokStr(r.val.val, SubSeq(s, r.val.next, e - 1))))
        ELSE SynError("lex error")
      ELSE SynError("lex error")

IsTok(toks, i, t, c) == i <= Len(toks) /\ toks[i].t = t /\ toks[i].c = c
IsKind(toks, i, t) == i <= Len(toks) /\ toks[i].t = t

Parsed2(val, next) == [ok |-> TRUE, val |-> val, next |-> next]
NotParsed == [ok |-> FALSE]

RECURSIVE SynParseMeta(_, _, _)
RECURSIVE SynParseNested(_, _, _, _, _)

\* impl Parse for syn::Meta: an ident, then a parenthesized list, or '='
\* and a literal, or nothing.
SynParseMeta(toks, i, span) ==
    IF ~IsKind(toks, i, "Ident") THEN NotParsed
    ELSE IF IsTok(toks, i + 1, "Open", 40) THEN
        LET r == SynParseNested(toks, i + 2, span, 1, <<>>) IN
        IF r.ok THEN Parsed2(MetaList(toks[i].s, r.val, span), r.next) ELSE NotParsed
    ELSE IF IsTok(toks, i + 1, "Punct", 61) THEN
        IF IsKind(toks, i + 2, "Str")
        THEN Parsed2(MetaNameValue(toks[i].s, LitStr(toks[i + 2].s), span), i + 3)
        ELSE NotParsed
    ELSE Parsed2(MetaWord(toks[i].s, span), i + 1)

\* Punctuated<NestedMeta, Token![,]>::parse_terminated up to the ')'.
SynParseNested(toks, i, span, idx, acc) ==
    IF IsTok(toks, i, "Close", 41) THEN Parsed2(acc, i + 1)
    ELSE LET here == Append(span, idx)
             x == IF IsKind(toks, i, "Str")
                  THEN Parsed2(NestedMetaLiteral(LitStr(toks[i].s), here), i + 1)
                  ELSE LET m == SynParseMeta(toks, i, here) IN
                       IF m.ok THEN Parsed2(NestedMetaMeta(m.val), m.next) ELSE NotParsed
         IN  IF ~x.ok THEN NotParsed
             ELSE IF IsTok(toks, x.next, "Close", 41)
                  THEN Parsed2(Append(acc, x.val), x.next + 1)
             ELSE IF IsTok(toks, x.next, "Punct", 44)
                  THEN SynParseNested(toks, x.next + 1, span, idx + 1, Append(acc, x.val))
             ELSE NotParsed

\* impl syn::parse::Parse for Cfg, with parse_str's demand that the whole
\* input is consumed.
CfgParseTokens(toks) ==
    IF ~(IsTok(toks, 1, "Punct", 35) /\ IsTok(toks, 2, "Open", 91))
    THEN SynError("expected #[..]")
    ELSE IF ~IsKind(toks, 3, "Ident") THEN SynError("expected identifier")
    ELSE LET m == SynParseMeta(toks, 3, <<>>) IN
         IF m.ok /\ IsTok(toks, m.next, "Close", 93) /\ m.next = Len(toks)
         THEN CfgTryFromMeta(m.val)
         ELSE SynError("unexpected token")

\* Cfg::parse / impl FromStr for Cfg
CfgParse(s) ==
    LET toks == Lex(s, 1, <<>>) IN
    IF toks.res = "Ok" THEN CfgParseTokens(toks.val) ELSE toks

(***************************************************************************)
(* Printing and parsing again.  The explored trees have identifier names   *)
(* and values over the characters a, quote and backslash.                  *)
(***************************************************************************)
MaxRtNodes == 3
MaxValueLen == 2

RtChars == {97, 34, 92}

RECURSIVE StringsOfLen(_)
StringsOfLen(n) ==
    IF n = 0 THEN {<<>>} ELSE {Append(s, c) : s \in StringsOfLen(n - 1), c \in RtChars}

\* a", a = "a
S_two_pairs == <<97, 34, 44, 32, 97, 32, 61, 32, 34, 97>>

RtValues == UNION {StringsOfLen(n) : n \in 0..MaxValueLen} \cup {S_two_pairs}
RtLeaves == {name(S_foo)} \cup {name_value(S_foo, v) : v \in RtValues}

RECURSIVE RtPredsOfSize(_)
RECURSIVE RtPredListsOfSize(_)

RtPredListsOfSize(n) ==
    IF n = 0 THEN {<<>>}
    ELSE UNION {{<<p>> \o rest : p \in RtPredsOfSize(k), rest \in RtPredListsOfSize(n - k)} :
                  k \in 1..n}

RtPredsOfSize(n) ==
    IF n = 0 THEN {}
    ELSE (IF n = 1 THEN RtLeaves ELSE {})
         \cup {not(c) : c \in RtPredsOfSize(n - 1)}
         \cup {any(l) : l \in RtPredListsOfSize(n - 1)}
         \cup {all(l) : l \in RtPredListsOfSize(n - 1)}

RtPredicates == UNION {RtPredsOfSize(n) : n \in 1..MaxRtNodes}

InitRound ==
    /\ pred \in RtPredicates
    /\ pattern = NoPattern
    /\ meta = NoMeta
    /\ attrs = <<>>
    /\ text = <<>>
    /\ out = NoOut

\* Cfg::from(pred).to_string()
ToString ==
    /\ out.op = "none"
    /\ text' = CfgFmt(Cfg(pred))
    /\ out' = [op |-> "to_string"]
    /\ UNCHANGED <<pred, pattern, meta, attrs>>

\* text.parse::<Cfg>()
FromStr ==
    /\ out.op = "to_string"
    /\ out' = [op |-> "from_str", ret |-> CfgParse(text)]
    /\ UNCHANGED <<pred, pattern, meta, attrs, text>>

NextRound == ToString \/ FromStr

SpecRound == InitRound /\ [][NextRound]_vars

\* The attribute expression that denotes a tree: names as idents, values as
\* string literals.
RECURSIVE MetaOf(_, _)
MetaOf(p, span) ==
    CASE p.tag = "Any" ->
           MetaList(S_any, [i \in 1..Len(p.children) |->
                              NestedMetaMeta(MetaOf(p.children[i], Append(span, i)))], span)
      [] p.tag = "All" ->
           MetaList(S_all, [i \in 1..Len(p.children) |->
                              NestedMetaMeta(MetaOf(p.children[i], Append(span, i)))], span)
      [] p.tag = "Not" ->
           MetaList(S_not, <<NestedMetaMeta(MetaOf(p.child, Append(span, 1)))>>, span)
      [] p.tag = "Name" -> MetaWord(p.name, span)
      [] p.tag = "NameValue" -> MetaNameValue(p.name, LitStr(p.value), span)

\* Every explored tree is one the structured parser produces.
RtProducedByParser ==
    CfgTryFromMeta(MetaList(S_cfg, <<NestedMetaMeta(MetaOf(pred, <<1>>))>>, <<>>))
        = Ok(Cfg(pred))

\* C4: rendering a Predicate built with the builder functions or produced by
\* the parser and parsing the rendered text again yields the same tree.
C4_RoundTrip ==
    out.op = "from_str" => out.ret = Ok(Cfg(pred))

\* The round trip where no value holds a quote or a backslash.
RECURSIVE PlainValues(_)
PlainValues(p) ==
    CASE p.tag \in {"Any", "All"} -> \A i \in 1..Len(p.children) : PlainValues(p.children[i])
      [] p.tag = "Not" -> PlainValues(p.child)
      [] p.tag = "Name" -> TRUE
      [] p.tag = "NameValue" -> \A i \in 1..Len(p.value) : p.value[i] \notin {34, 92}

RoundTripOfPlainValues ==
    (out.op = "from_str" /\ PlainValues(pred)) => out.ret = Ok(Cfg(pred))

(***************************************************************************)
(* Claims about the structured parser.                                     *)
(***************************************************************************)
Parsed == out.op = "try_from"

IsCfgList(m) == m.kind = "List" /\ m.ident = S_cfg

\* The attribute is cfg(not(..)): the not list is the only operand.
IsCfgOfNot ==
    /\ IsCfgList(meta)
    /\ Len(meta.nested) = 1
    /\ meta.nested[1].nested = "Meta"
    /\ meta.nested[1].inner.kind = "List"
    /\ meta.nested[1].inner.ident = S_not

\* C5: not(..) with no operand is the error "predicate can't be empty";
\* with two or more operands it is the error "only support one predicate"
\* at the second operand, whatever the first operand is; with one operand
\* it is Not(child) when the operand parses and the operand's own error
\* otherwise.
C5_NotArity ==
    (Parsed /\ IsCfgOfNot) =>
        LET not_list == meta.nested[1].inner
            k == Len(not_list.nested)
        IN  /\ k = 0 =>
                 out.ret = Err("#[cfg(not(..))] predicate can't be empty", <<>>, not_list.span)
            /\ k >= 2 =>
                 out.ret = Err("#[cfg(not(..))] only support one predicate", <<>>,
                               NestedSpan(not_list.nested[2]))
            /\ k = 1 =>
                 LET child == parse_nested_meta(not_list.nested[1]) IN
                 IF child.res = "Ok"
                 THEN out.ret = Ok(Cfg(Not(child.val)))
                 ELSE child.res = "Err" /\ out.ret = child

\* The same arity rule wherever the first operand does not panic.
NotArityUnlessPanic ==
    (Parsed /\ IsCfgOfNot) =>
        LET not_list == meta.nested[1].inner
            k == Len(not_list.nested)
            child == parse_nested_meta(not_list.nested[1])
        IN  /\ k = 0 =>
                 out.ret = Err("#[cfg(not(..))] predicate can't be empty", <<>>, not_list.span)
            /\ (k >= 2 /\ child.res # "Panic") =>
                 out.ret = Err("#[cfg(not(..))] only support one predicate", <<>>,
                               NestedSpan(not_list.nested[2]))
            /\ (k >= 1 /\ child.res = "Panic") => out.ret = child
            /\ (k = 1 /\ child.res = "Ok") => out.ret = Ok(Cfg(Not(child.val)))
            /\ (k = 1 /\ child.res = "Err") => out.ret = child

\* C6: top-level parsing returns a Cfg only for cfg applied to a list of
\* exactly one operand that parses; any other attribute name is an error,
\* cfg() is the error "predicate can't be empty", and cfg with more than one
\* operand is the error "only support one predicate".
C6_TopLevelCfg ==
    Parsed =>
        /\ out.ret.res = "Ok" =>
             /\ IsCfgList(meta)
             /\ Len(meta.nested) = 1
             /\ parse_nested_meta(meta.nested[1]).res = "Ok"
        /\ meta.ident # S_cfg => out.ret.res = "Err"
        /\ (IsCfgList(meta) /\ Len(meta.nested) = 0) =>
             out.ret = Err("#[cfg(..)] predicate can't be empty", <<>>, meta.span)
        /\ (IsCfgList(meta) /\ Len(meta.nested) > 1) =>
             /\ out.ret.res = "Err"
             /\ out.ret.msg.fmt = "#[cfg(..)] only support one predicate"

\* The list nodes of a Meta, itself included.
RECURSIVE ListNodes(_)
ListNodes(m) ==
    IF m.kind = "List"
    THEN {m} \cup UNION {IF m.nested[i].nested = "Meta"
                         THEN ListNodes(m.nested[i].inner) ELSE {} :
                           i \in 1..Len(m.nested)}
    ELSE {}

\* The lists below the top-level cfg(..) whose operator is not any, all, not.
UnknownOperatorLists ==
    {l \in ListNodes(meta) \ {meta} : l.ident \notin {S_any, S_all, S_not}}

\* C7: a list below the top-level cfg(..) whose operator is not any, all or
\* not makes the parse fail with an error naming that operator; no Predicate
\* is produced.
C7_UnknownOperator ==
    (Parsed /\ IsCfgList(meta) /\ UnknownOperatorLists # {}) =>
        /\ out.ret.res = "Err"
        /\ out.ret.msg.fmt = "unexpected operator {}"
        /\ \E l \in UnknownOperatorLists : out.ret.msg.arg = l.ident

\* C9: the structured parser finishes with a Cfg or an error value; it never
\* panics.
C9_NeverPanics ==
    Parsed => out.ret.res \in {"Ok", "Err"}

\* C8: Cfg::find looks only at the first attribute named cfg: it returns
\* that attribute's Cfg iff it parses, and None when there is no such
\* attribute or when it fails to parse.
C8_FindFirstCfg ==
    out.op = "find" =>
        LET named == {i \in 1..Len(attrs) : PathIsIdent(attrs[i].path, S_cfg)} IN
        IF named = {} THEN out.ret = Ok(None)
        ELSE LET first == CHOOSE i \in named : \A j \in named : i <= j
                 r == CfgTryFromAttribute(attrs[first])
             IN  IF r.res = "Ok" THEN out.ret = Ok(Some(r.val)) ELSE out.ret = Ok(None)

\* The same wherever parsing the first cfg attribute does not panic.
FindUnlessPanic ==
    out.op = "find" =>
        LET named == {i \in 1..Len(attrs) : PathIsIdent(attrs[i].path, S_cfg)} IN
        IF named = {} THEN out.ret = Ok(None)
        ELSE LET first == CHOOSE i \in named : \A j \in named : i <= j
                 r == CfgTryFromAttribute(attrs[first])
             IN  CASE r.res = "Ok" -> out.ret = Ok(Some(r.val))
                   [] r.res = "Err" -> out.ret = Ok(None)
                   [] r.res = "Panic" -> out.ret = r

====
